---- MODULE Spec2Model ----
(***************************************************************************)
(* seattle_bike_data: BikeData.__init__ as a state machine.                *)
(*                                                                         *)
(* The constructor fetches the hourly counts of one location, normalises   *)
(* them (_data_from_server), sums them per day (_get_daily_totals),        *)
(* repairs the days of the Spokane St counter whose total is 0             *)
(* (_fix_days_with_broken_counter) and derives three rollups.              *)
(*                                                                         *)
(* A pandas DataFrame is a sequence of records (its rows, in order); the   *)
(* index levels are fields of the row.  A float column that pandas fills   *)
(* with NaN holds NaN here; dayofyear_float and the means are kept exact   *)
(* (in 24ths of a day, and as <<sum, count>>).                             *)
(***************************************************************************)
EXTENDS Integers, Sequences, FiniteSets, TLC

VARIABLES
    location,               \* self.location
    results,                \* what client.get returns for the location
    cache,                  \* .bike_data_cache/<shortname>_hourly_counts_cache.h5
                            \* (absent when the constructor starts)
    total_cols,             \* self._total_cols
    hourly_totals,          \* self.hourly_totals
    daily,                  \* the local daily_totals of _get_daily_totals
    aggregated,             \* the value of daily before the repair (history)
    days_the_thief_struck,  \* the rows the repair loop has still to visit
    daily_totals,           \* self.daily_totals
    grouped_by_weekday,     \* self.grouped_by_weekday
    grouped_by_month,       \* self.grouped_by_month
    rolling_yearly_sum,     \* self.rolling_yearly_sum
    attrs,                  \* the attributes assigned on self so far
    pc,                     \* the constructor's position
    err                     \* the exception that ended it, if any

vars == <<location, results, cache, total_cols, hourly_totals, daily,
          aggregated, days_the_thief_struck, daily_totals, grouped_by_weekday,
          grouped_by_month, rolling_yearly_sum, attrs, pc, err>>

----------------------------------------------------------------------------
(* Bounds of the model.                                                    *)

\* most raw records of an input of the first family (any location)
MaxRecords == 3
\* largest hourly count of an input of the first family
MaxCount == 1
\* most raw records of an input of the second family (several years)
MaxDays == 4
\* largest hourly count of an input of the second family
MaxTotal == 2

----------------------------------------------------------------------------
(* pandas values.                                                          *)

\* the missing value of a numeric column
NaN == -1
\* the missing value of a datetime column
NaT == <<>>
\* the window of the rolling sum
WINDOW == 365

_variable_names ==
    [spokane_street_bridge |->
        [total_column |-> "spokane_st_bridge_total", shortname |-> "spokane",
         data_address |-> "upms-nr8w"],
     fremont_bridge |->
        [total_column |-> "fremont_bridge", shortname |-> "fremont",
         data_address |-> "65db-xm6k"],
     second_avenue_cycletrack |->
        [total_column |-> "_2nd_ave_cycletrack", shortname |-> "second_ave",
         data_address |-> "avwm-i8ym"]]

Locations == DOMAIN _variable_names

----------------------------------------------------------------------------
(* The calendar, as pandas.Timestamp computes it.                          *)

IsLeap(y) == (y % 4 = 0) /\ ((y % 100 # 0) \/ (y % 400 = 0))

DaysInMonth(y, m) ==
    IF m = 2 THEN (IF IsLeap(y) THEN 29 ELSE 28)
    ELSE IF m \in {4, 6, 9, 11} THEN 30 ELSE 31

RECURSIVE DaysBeforeMonth(_, _)
DaysBeforeMonth(y, m) ==
    IF m = 1 THEN 0 ELSE DaysBeforeMonth(y, m - 1) + DaysInMonth(y, m - 1)

\* Timestamp.dayofyear of the date d = <<year, month, day, hour>>
DayOfYear(d) == DaysBeforeMonth(d[1], d[2]) + d[3]

DaysBeforeYear(y) ==
    365 * (y - 1) + ((y - 1) \div 4) - ((y - 1) \div 100) + ((y - 1) \div 400)

\* Timestamp.dayofweek: 0 is Monday
DayOfWeek(d) == (DaysBeforeYear(d[1]) + DayOfYear(d) + 6) % 7

day_name == <<"Monday", "Tuesday", "Wednesday", "Thursday", "Friday",
              "Saturday", "Sunday">>

month_name == <<"January", "February", "March", "April", "May", "June", "July",
                "August", "September", "October", "November", "December">>

\* d1 is not after d2
DateLeq(d1, d2) ==
    \/ d1[1] < d2[1]
    \/ d1[1] = d2[1] /\ d1[2] < d2[2]
    \/ d1[1] = d2[1] /\ d1[2] = d2[2] /\ d1[3] < d2[3]
    \/ d1[1] = d2[1] /\ d1[2] = d2[2] /\ d1[3] = d2[3] /\ d1[4] <= d2[4]

----------------------------------------------------------------------------
(* Inputs.  A raw record maps column names to values: "date" to the fields *)
(* of its timestamp, a count column to the numeral the server sends.  A    *)
(* null count is a column the record does not have.                        *)

Numeral == <<"0", "1", "2", "3", "4", "5", "6", "7", "8", "9">>

NumeralOf(n) == Numeral[n + 1]

RawRecord(loc, d, total, other) ==
    [c \in {"date"}
           \cup (IF total = NaN THEN {} ELSE {_variable_names[loc].total_column})
           \cup (IF other = NaN THEN {} ELSE {"other"}) |->
        IF c = "date" THEN d
        ELSE IF c = "other" THEN NumeralOf(other) ELSE NumeralOf(total)]

RECURSIVE IncreasingSeqs(_, _)
\* the strictly increasing sequences of at most n numbers of 1 .. m: one for
\* each choice of at most n records out of m
IncreasingSeqs(m, n) ==
    IF n = 0 THEN {<<>>}
    ELSE LET shorter == IncreasingSeqs(m, n - 1)
         IN  shorter \cup
             UNION {{Append(s, x) :
                        x \in (IF s = <<>> THEN 1 ELSE s[Len(s)] + 1) .. m} :
                    s \in {t \in shorter : Len(t) = n - 1}}

\* first family: two days a year apart, one of them with two hours
PipelineDates == <<<<2018, 1, 2, 0>>, <<2019, 1, 1, 0>>, <<2019, 1, 1, 1>>>>

\* the counts of the first family: none (NaN) or 0 .. MaxCount for the total,
\* none or 1 for the other column
PipelineTotals == [i \in 1 .. MaxCount + 2 |-> IF i = 1 THEN NaN ELSE i - 2]

PipelineOthers == <<NaN, 1>>

\* the k-th record of the first family, k in 1 .. PipelineSize
PipelineRecord(loc, k) ==
    LET nt == Len(PipelineTotals)
        no == Len(PipelineOthers)
    IN  RawRecord(loc,
                  PipelineDates[((k - 1) \div (nt * no)) + 1],
                  PipelineTotals[(((k - 1) \div no) % nt) + 1],
                  PipelineOthers[((k - 1) % no) + 1])

PipelineSize == Len(PipelineDates) * Len(PipelineTotals) * Len(PipelineOthers)

\* second family: Tuesdays of 2013, 2014 and 2019 (2013-01-16 is a Wednesday),
\* one reading a day, totals 0 .. MaxTotal, no other column
RepairDates == <<<<2013, 1, 8, 0>>, <<2013, 1, 16, 0>>, <<2013, 1, 22, 0>>,
                 <<2014, 1, 14, 0>>, <<2019, 1, 15, 0>>>>

\* the k-th record of the second family, k in 1 .. RepairSize
RepairRecord(loc, k) ==
    RawRecord(loc, RepairDates[((k - 1) \div (MaxTotal + 1)) + 1],
              (k - 1) % (MaxTotal + 1), NaN)

RepairSize == Len(RepairDates) * (MaxTotal + 1)

\* the location and the choice of records of every input
Inputs ==
    {[location |-> loc, family |-> "pipeline", choice |-> c] :
        loc \in Locations, c \in IncreasingSeqs(PipelineSize, MaxRecords)}
    \cup
    {[location |-> "spokane_street_bridge", family |-> "repair", choice |-> c] :
        c \in IncreasingSeqs(RepairSize, MaxDays)}

\* what client.get returns for the input
ResultsOf(in) ==
    {IF in.family = "pipeline"
     THEN PipelineRecord(in.location, in.choice[i])
     ELSE RepairRecord(in.location, in.choice[i]) : i \in DOMAIN in.choice}

----------------------------------------------------------------------------
(* _data_from_server                                                       *)

\* DataFrame.from_records: the columns are the keys of all the records
Columns(rs) == UNION {DOMAIN r : r \in rs}

\* .rename(columns={total_column: 'total'})
Rename(loc, c) == IF c = _variable_names[loc].total_column THEN "total" ELSE c

\* .fillna(0)
Fillna(r, c) == IF c \in DOMAIN r THEN r[c] ELSE "0"

\* .astype(int)
AsInt(s) == CHOOSE n \in 0 .. 9 : Numeral[n + 1] = s

\* the value of count column c (after the rename) in raw record r
Count(loc, cols, r, c) ==
    IF c \notin cols THEN NaN
    ELSE LET raw_name == IF c = "total"
                         THEN _variable_names[loc].total_column ELSE c
         IN  AsInt(Fillna(r, raw_name))

\* one row of hourly_totals: the counts and the calendar columns
HourlyRow(loc, cols, r) ==
    LET d == r["date"] IN
    [date |-> d,
     total |-> Count(loc, cols, r, "total"),
     other |-> Count(loc, cols, r, "other"),
     year |-> d[1],
     weekday |-> DayOfWeek(d),
     hour |-> d[4],
     month |-> d[2],
     day |-> d[3],
     day_name |-> day_name[DayOfWeek(d) + 1],
     dayofyear |-> DayOfYear(d),
     dayofyear_float |-> 24 * DayOfYear(d) + d[4]]

RECURSIVE SortValuesByDate(_)
\* .sort_values(by='date'): every order of the records that ascends by date
\* (quicksort, the default, does not keep the order of equal dates)
SortValuesByDate(rs) ==
    IF rs = {} THEN {<<>>}
    ELSE LET firsts == {r \in rs : \A q \in rs : DateLeq(r["date"], q["date"])}
         IN  UNION {{<<r>> \o t : t \in SortValuesByDate(rs \ {r})} : r \in firsts}

\* the columns drop_duplicates compares: all but the index levels
\* (year, dayofyear, hour)
ColumnsOf(row) ==
    <<row.date, row.total, row.other, row.weekday, row.month, row.day,
      row.day_name, row.dayofyear_float>>

RECURSIVE DropDuplicates(_)
\* .drop_duplicates(): keeps the first of the rows whose columns are equal
DropDuplicates(rows) ==
    IF rows = <<>> THEN <<>>
    ELSE LET n == Len(rows)
             init == DropDuplicates(SubSeq(rows, 1, n - 1))
         IN  IF \E i \in 1 .. n - 1 : ColumnsOf(rows[i]) = ColumnsOf(rows[n])
             THEN init ELSE Append(init, rows[n])

\* the frame _data_from_server returns for the records in the order sorted
DataFromServer(loc, sorted) ==
    LET cols == {Rename(loc, c) : c \in Columns({sorted[i] : i \in DOMAIN sorted})}
    IN  DropDuplicates([i \in DOMAIN sorted |-> HourlyRow(loc, cols, sorted[i])])

\* self._total_cols, set by _data_from_server
TotalCols(loc, rs) == {Rename(loc, c) : c \in Columns(rs)} \ {"date"}

----------------------------------------------------------------------------

Init ==
    /\ \E in \in Inputs :
         /\ location = in.location
         /\ results = ResultsOf(in)
    /\ cache = <<>>
    /\ total_cols = {}
    /\ hourly_totals = <<>>
    /\ daily = <<>>
    /\ aggregated = <<>>
    /\ days_the_thief_struck = <<>>
    /\ daily_totals = <<>>
    /\ grouped_by_weekday = <<>>
    /\ grouped_by_month = <<>>
    /\ rolling_yearly_sum = <<>>
    /\ attrs = {}
    /\ pc = "hourly_totals"
    /\ err = ""

Raise(e) ==
    /\ pc' = "error"
    /\ err' = e

\* _get_hourly_totals: _data_from_cache finds no cache file and returns None,
\* the frame comes from the server and is written to the cache
GetHourlyTotals ==
    /\ pc = "hourly_totals"
    /\ cache = <<>>
    /\ IF results = {}
       THEN \* hourly_totals['date'] of a frame without columns
            /\ Raise("KeyError: 'date'")
            /\ UNCHANGED <<total_cols, hourly_totals, cache, attrs>>
       ELSE \E s \in SortValuesByDate(results) :
              /\ hourly_totals' = DataFromServer(location, s)
              /\ total_cols' = TotalCols(location, results)
              /\ cache' = hourly_totals'
              /\ attrs' = attrs \cup {"hourly_totals"}
              /\ pc' = "daily_totals"
              /\ err' = err
    /\ UNCHANGED <<location, results, daily, aggregated, days_the_thief_struck,
                   daily_totals, grouped_by_weekday, grouped_by_month,
                   rolling_yearly_sum>>

----------------------------------------------------------------------------
(* _get_daily_totals                                                       *)

\* the pairs <<a, b>> in lexicographic order
PairLeq(k1, k2) == k1[1] < k2[1] \/ (k1[1] = k2[1] /\ k1[2] <= k2[2])

RECURSIVE SortedPairs(_)
\* the pairs of the finite set S in ascending order: the order of the group
\* keys of a groupby
SortedPairs(S) ==
    IF S = {} THEN <<>>
    ELSE LET m == CHOOSE x \in S : \A y \in S : PairLeq(x, y)
         IN  <<m>> \o SortedPairs(S \ {m})

RECURSIVE SeqSum(_)
SeqSum(s) == IF s = <<>> THEN 0 ELSE s[1] + SeqSum(Tail(s))

\* the sum of column c over the rows of the day key = <<year, dayofyear>>
DaySum(hourly, cols, key, c) ==
    IF c \notin cols THEN NaN
    ELSE LET rows == SelectSeq(hourly,
                         LAMBDA r : r.year = key[1] /\ r.dayofyear = key[2])
         IN  SeqSum([i \in DOMAIN rows |-> rows[i][c]])

\* hourly_totals.groupby(['year', 'dayofyear'])[self._total_cols].sum(), with
\* the index level hour = 0 appended
GroupbySum(hourly, cols) ==
    LET keys == {<<hourly[i].year, hourly[i].dayofyear>> : i \in DOMAIN hourly}
        order == SortedPairs(keys)
    IN  [i \in DOMAIN order |->
            [year |-> order[i][1], dayofyear |-> order[i][2], hour |-> 0,
             total |-> DaySum(hourly, cols, order[i], "total"),
             other |-> DaySum(hourly, cols, order[i], "other")]]

\* the rows of the merge for one row g of the left frame: one per row of the
\* right frame with g's index, or one of missing values when there is none
MergeRows(g, hourly) ==
    LET right == SelectSeq(hourly,
                     LAMBDA r : /\ r.year = g.year
                                /\ r.dayofyear = g.dayofyear
                                /\ r.hour = g.hour)
    IN  IF right = <<>>
        THEN <<[year |-> g.year, dayofyear |-> g.dayofyear, hour |-> g.hour,
                total |-> g.total, other |-> g.other,
                weekday |-> NaN, day_name |-> "NaN", day |-> NaN, date |-> NaT,
                month |-> NaN, dayofyear_float |-> NaN]>>
        ELSE [j \in DOMAIN right |->
               [year |-> g.year, dayofyear |-> g.dayofyear, hour |-> g.hour,
                total |-> g.total, other |-> g.other,
                weekday |-> right[j].weekday, day_name |-> right[j].day_name,
                day |-> right[j].day, date |-> right[j].date,
                month |-> right[j].month,
                dayofyear_float |-> right[j].dayofyear_float]]

RECURSIVE Concat(_)
\* pd.concat of a sequence of frames
Concat(frames) ==
    IF frames = <<>> THEN <<>> ELSE frames[1] \o Concat(Tail(frames))

\* daily_totals.merge(hourly_totals[[...]], left_index=True, right_index=True,
\* how='left')
MergeLeft(left, hourly) == Concat([i \in DOMAIN left |-> MergeRows(left[i], hourly)])

\* the frame of daily totals before any repair
Aggregate(hourly, cols) == MergeLeft(GroupbySum(hourly, cols), hourly)

RECURSIVE Reverse(_)
Reverse(s) == IF s = <<>> THEN <<>> ELSE Append(Reverse(Tail(s)), Head(s))

\* DaysTheThiefStruck as it would be if the broken rows came latest first
DaysTheThiefStruckDescending(d) == Reverse(SelectSeq(d, LAMBDA r : r.total = 0))

\* daily_totals[daily_totals['total'] == 0]
DaysTheThiefStruck(d) == SelectSeq(d, LAMBDA r : r.total = 0)

\* NeedsRepair as it would be if every location were repaired
NeedsRepairEverywhere(loc) == loc \in Locations

\* if self.location == 'spokane street bridge'
NeedsRepair(loc) == loc = "spokane_street_bridge"

\* _get_daily_totals up to the call of _fix_days_with_broken_counter, and the
\* first statement of the latter
GetDailyTotals ==
    /\ pc = "daily_totals"
    /\ daily' = Aggregate(hourly_totals, total_cols)
    /\ aggregated' = daily'
    /\ IF NeedsRepair(location)
       THEN IF "total" \in total_cols
            THEN /\ days_the_thief_struck' = DaysTheThiefStruck(daily')
                 /\ pc' = "fix"
                 /\ err' = err
                 /\ UNCHANGED <<daily_totals, attrs>>
            ELSE /\ Raise("KeyError: 'total'")
                 /\ UNCHANGED <<days_the_thief_struck, daily_totals, attrs>>
       ELSE /\ daily_totals' = daily'
            /\ attrs' = attrs \cup {"daily_totals"}
            /\ pc' = "grouped_by_weekday"
            /\ err' = err
            /\ UNCHANGED days_the_thief_struck
    /\ UNCHANGED <<location, results, cache, total_cols, hourly_totals,
                   grouped_by_weekday, grouped_by_month, rolling_yearly_sum>>

----------------------------------------------------------------------------
(* _fix_days_with_broken_counter                                           *)

Abs(x) == IF x < 0 THEN -x ELSE x

RECURSIVE Unique(_)
\* Series.unique(): the distinct values in order of first appearance
Unique(s) ==
    IF s = <<>> THEN <<>>
    ELSE LET n == Len(s)
             init == Unique(SubSeq(s, 1, n - 1))
         IN  IF \E i \in 1 .. n - 1 : s[i] = s[n] THEN init ELSE Append(init, s[n])

\* PreviousYears as it would be with year <= current_year
PreviousYearsInclusive(d, current_year) ==
    SelectSeq(Unique([i \in DOMAIN d |-> d[i].year]), LAMBDA y : y <= current_year)

\* [year for year in daily_totals.reset_index().year.unique()
\*  if year < current_year]
PreviousYears(d, current_year) ==
    SelectSeq(Unique([i \in DOMAIN d |-> d[i].year]), LAMBDA y : y < current_year)

\* CandidateDays as it would be without the test of the weekday
CandidateDaysAnyWeekday(df, weekday, year) == SelectSeq(df, LAMBDA r : r.year = year)

\* the rows of year `year` with weekday `weekday`; a missing weekday equals
\* nothing
CandidateDays(df, weekday, year) ==
    SelectSeq(df, LAMBDA r : /\ weekday # NaN
                             /\ r.weekday # NaN
                             /\ r.weekday = weekday
                             /\ r.year = year)

\* find_nearest_matching_day as it would be if it kept one nearest day only
find_first_nearest_matching_day(df_in, day_of_year, weekday, year) ==
    LET candidate_days == CandidateDays(df_in, weekday, year)
        dist(r) == Abs(r.dayofyear - day_of_year)
        nearest == SelectSeq(candidate_days,
                       LAMBDA r : \A i \in DOMAIN candidate_days :
                                     dist(r) <= dist(candidate_days[i]))
    IN  IF nearest = <<>> THEN <<>> ELSE <<nearest[1]>>

\* find_nearest_matching_day: the candidate days whose distance to day_of_year
\* is the least distance of a candidate day
find_nearest_matching_day(df_in, day_of_year, weekday, year) ==
    LET candidate_days == CandidateDays(df_in, weekday, year)
        dist(r) == Abs(r.dayofyear - day_of_year)
    IN  SelectSeq(candidate_days,
            LAMBDA r : \A i \in DOMAIN candidate_days :
                          dist(r) <= dist(candidate_days[i]))

\* get_all_previous_matching_days without its pd.concat: one frame a year
get_all_previous_matching_days(d, row) ==
    LET years == PreviousYears(d, row.year)
    IN  [k \in DOMAIN years |->
            find_nearest_matching_day(d, row.dayofyear, row.weekday, years[k])]

RECURSIVE SortedInts(_)
\* the integers of the sequence s in ascending order
SortedInts(s) ==
    IF s = <<>> THEN <<>>
    ELSE LET i == CHOOSE i \in DOMAIN s : \A j \in DOMAIN s : s[i] <= s[j]
         IN  <<s[i]>> \o SortedInts([k \in 1 .. Len(s) - 1 |->
                                        IF k < i THEN s[k] ELSE s[k + 1]])

\* twice DataFrame.median() of a non-empty column (the median is a float: the
\* middle value, or half the sum of the two middle values)
TwiceMedian(values) ==
    LET sorted == SortedInts(values)
        n == Len(sorted)
    IN  IF n % 2 = 1 THEN 2 * sorted[(n + 1) \div 2]
        ELSE sorted[n \div 2] + sorted[n \div 2 + 1]

\* int(x) of the float x = twice / 2: truncation towards zero
IntOfHalf(twice) == IF twice >= 0 THEN twice \div 2 ELSE -((-twice) \div 2)

\* SetTotalAt as it would be if the assignment were to the whole row
SetTotalAtWholeRow(d, idx, value) ==
    [i \in DOMAIN d |->
        IF <<d[i].year, d[i].dayofyear, d[i].hour>> = idx
        THEN [d[i] EXCEPT !.total = value, !.other = value] ELSE d[i]]

\* daily_totals.at[idx, 'total'] = value: every row with the index idx
SetTotalAt(d, idx, value) ==
    [i \in DOMAIN d |->
        IF <<d[i].year, d[i].dayofyear, d[i].hour>> = idx
        THEN [d[i] EXCEPT !.total = value] ELSE d[i]]

\* daily_totals.index.is_unique
IndexIsUnique(d) ==
    \A i, j \in DOMAIN d :
       <<d[i].year, d[i].dayofyear, d[i].hour>> = <<d[j].year, d[j].dayofyear, d[j].hour>>
       => i = j

\* one turn of the loop over days_the_thief_struck.iterrows()
FixDay ==
    /\ pc = "fix"
    /\ days_the_thief_struck # <<>>
    /\ LET row == Head(days_the_thief_struck)
           idx == <<row.year, row.dayofyear, row.hour>>
           frames == get_all_previous_matching_days(daily, row)
       IN  IF frames = <<>>
           THEN \* pd.concat([])
                /\ Raise("ValueError: No objects to concatenate")
                /\ UNCHANGED <<daily, days_the_thief_struck>>
           ELSE LET matches == Concat(frames) IN
                IF matches = <<>>
                THEN \* the median of no value is NaN
                     /\ Raise("ValueError: cannot convert float NaN to integer")
                     /\ UNCHANGED <<daily, days_the_thief_struck>>
                ELSE \/ /\ daily' = SetTotalAt(daily, idx,
                               IntOfHalf(TwiceMedian(
                                   [i \in DOMAIN matches |-> matches[i].total])))
                        /\ days_the_thief_struck' = Tail(days_the_thief_struck)
                        /\ UNCHANGED <<pc, err>>
                     \/ \* .at on an index that is not unique: pandas before
                        \* 1.1 writes every row with the index (above), later
                        \* versions refuse the tuple as a scalar key
                        /\ ~IndexIsUnique(daily)
                        /\ Raise("ValueError: Invalid call for scalar access (setting)!")
                        /\ UNCHANGED <<daily, days_the_thief_struck>>
    /\ UNCHANGED <<location, results, cache, total_cols, hourly_totals,
                   aggregated, daily_totals, grouped_by_weekday,
                   grouped_by_month, rolling_yearly_sum, attrs>>

\* the loop is over: _fix_days_with_broken_counter and _get_daily_totals
\* return, self.daily_totals is assigned
FixReturn ==
    /\ pc = "fix"
    /\ days_the_thief_struck = <<>>
    /\ daily_totals' = daily
    /\ attrs' = attrs \cup {"daily_totals"}
    /\ pc' = "grouped_by_weekday"
    /\ UNCHANGED <<location, results, cache, total_cols, hourly_totals, daily,
                   aggregated, days_the_thief_struck, grouped_by_weekday,
                   grouped_by_month, rolling_yearly_sum, err>>

----------------------------------------------------------------------------
(* The rollups.                                                            *)

\* the values of `total` of the rows of d with d[i][by] = key[1] and
\* d[i].year = key[2]
GroupTotals(d, by, key) ==
    LET rows == SelectSeq(d, LAMBDA r : r[by] = key[1] /\ r.year = key[2])
    IN  [i \in DOMAIN rows |-> rows[i].total]

\* the group keys of day_totals.groupby([by, 'year']); a row whose key is
\* missing belongs to no group
GroupKeys(d, by) ==
    SortedPairs({<<d[i][by], d[i].year>> : i \in {j \in DOMAIN d : d[j][by] # NaN}})

\* the sample variance as <<numerator, denominator>>; .std() is its root, and
\* NaN for a group of one row
SampleVariance(xs) ==
    LET n == Len(xs)
        sum == SeqSum(xs)
        squares == SeqSum([i \in DOMAIN xs |-> xs[i] * xs[i]])
    IN  IF n < 2 THEN <<NaN, NaN>> ELSE <<n * squares - sum * sum, n * (n - 1)>>

\* the mean as <<sum, count>>
Mean(xs) == <<SeqSum(xs), Len(xs)>>

\* _group_by_weekday
GroupByWeekdayFrame(d) ==
    LET keys == GroupKeys(d, "weekday")
    IN  [k \in DOMAIN keys |->
            LET xs == GroupTotals(d, "weekday", keys[k]) IN
            [weekday |-> keys[k][1], year |-> keys[k][2],
             total_crossings_mean |-> Mean(xs),
             day_name |-> day_name[keys[k][1] + 1],
             total_crossings_std |-> SampleVariance(xs)]]

\* _group_by_month
GroupByMonthFrame(d) ==
    LET keys == GroupKeys(d, "month")
    IN  [k \in DOMAIN keys |->
            LET xs == GroupTotals(d, "month", keys[k]) IN
            [month |-> keys[k][1], year |-> keys[k][2],
             total_crossings |-> SeqSum(xs),
             total_crossings_mean |-> Mean(xs),
             month_name |-> month_name[keys[k][1]]]]

\* daily_totals[['total']].rolling(window=365).sum() at row i: the sum of the
\* window rows ending at i, NaN while there are fewer
RollingSum(d, window, i) ==
    IF i < window THEN NaN
    ELSE SeqSum([k \in 1 .. window |-> d[i - window + k].total])

\* the rows of the inner merge for row i of the rolling frame: one per row of
\* daily_totals with the same index
RollingMergeRows(d, window, i) ==
    LET right == SelectSeq(d, LAMBDA r : /\ r.year = d[i].year
                                         /\ r.dayofyear = d[i].dayofyear
                                         /\ r.hour = d[i].hour)
    IN  [j \in DOMAIN right |->
            [year |-> d[i].year, dayofyear |-> d[i].dayofyear, hour |-> d[i].hour,
             total |-> RollingSum(d, window, i),
             weekday |-> right[j].weekday, day_name |-> right[j].day_name,
             day |-> right[j].day, date |-> right[j].date,
             month |-> right[j].month]]

\* _make_rolling_yearly
MakeRollingYearlyFrame(d, window) ==
    Concat([i \in DOMAIN d |-> RollingMergeRows(d, window, i)])

GroupByWeekday ==
    /\ pc = "grouped_by_weekday"
    /\ IF "total" \in total_cols
       THEN /\ grouped_by_weekday' = GroupByWeekdayFrame(daily_totals)
            /\ attrs' = attrs \cup {"grouped_by_weekday"}
            /\ pc' = "grouped_by_month"
            /\ err' = err
       ELSE \* groupby(...)[['total']] of a frame without that column
            /\ Raise("KeyError: 'total'")
            /\ UNCHANGED <<grouped_by_weekday, attrs>>
    /\ UNCHANGED <<location, results, cache, total_cols, hourly_totals, daily,
                   aggregated, days_the_thief_struck, daily_totals,
                   grouped_by_month, rolling_yearly_sum>>

GroupByMonth ==
    /\ pc = "grouped_by_month"
    /\ grouped_by_month' = GroupByMonthFrame(daily_totals)
    /\ attrs' = attrs \cup {"grouped_by_month"}
    /\ pc' = "rolling_yearly_sum"
    /\ UNCHANGED <<location, results, cache, total_cols, hourly_totals, daily,
                   aggregated, days_the_thief_struck, daily_totals,
                   grouped_by_weekday, rolling_yearly_sum, err>>

\* _make_rolling_yearly; the palettes that __init__ defines after it depend on
\* no table
MakeRollingYearly ==
    /\ pc = "rolling_yearly_sum"
    /\ rolling_yearly_sum' = MakeRollingYearlyFrame(daily_totals, WINDOW)
    /\ attrs' = attrs \cup {"rolling_yearly_sum"}
    /\ pc' = "done"
    /\ UNCHANGED <<location, results, cache, total_cols, hourly_totals, daily,
                   aggregated, days_the_thief_struck, daily_totals,
                   grouped_by_weekday, grouped_by_month, err>>

Next ==
    \/ GetHourlyTotals
    \/ GetDailyTotals
    \/ FixDay
    \/ FixReturn
    \/ GroupByWeekday
    \/ GroupByMonth
    \/ MakeRollingYearly

Spec == Init /\ [][Next]_vars

----------------------------------------------------------------------------
(* Vocabulary of the properties.                                           *)

Key(r) == <<r.year, r.dayofyear, r.hour>>

Rollups == {"grouped_by_weekday", "grouped_by_month", "rolling_yearly_sum"}

Spokane == location = "spokane_street_bridge"

\* the positions of the broken rows of the table before the repair
BrokenPositions == {i \in DOMAIN aggregated : aggregated[i].total = 0}

\* how many rows the repair loop has visited
Visited == Cardinality(BrokenPositions) - Len(days_the_thief_struck)

\* the positions whose row has been written: a broken row whose index is that
\* of one of the first Visited broken rows
Written ==
    {i \in BrokenPositions :
        \E j \in BrokenPositions :
            /\ Cardinality({k \in BrokenPositions : k <= j}) <= Visited
            /\ Key(aggregated[j]) = Key(aggregated[i])}

\* the years before that of row i that the table d has
PriorYears(d, i) == {d[j].year : j \in {k \in DOMAIN d : d[k].year < d[i].year}}

\* the rows of year y that have the weekday of row i
SameWeekday(d, i, y) ==
    {j \in DOMAIN d : /\ d[j].year = y
                      /\ d[i].weekday # NaN
                      /\ d[j].weekday # NaN
                      /\ d[j].weekday = d[i].weekday}

\* the pool of row i: in every prior year, the rows of i's weekday that no
\* other such row of that year is nearer to i's day of the year than
Pool(d, i) ==
    UNION {{j \in SameWeekday(d, i, y) :
              \A k \in SameWeekday(d, i, y) :
                 Abs(d[j].dayofyear - d[i].dayofyear)
                    <= Abs(d[k].dayofyear - d[i].dayofyear)} :
           y \in PriorYears(d, i)}

\* the k-th smallest total of the rows J of d
KthSmallest(d, J, k) ==
    CHOOSE v \in {d[j].total : j \in J} :
        /\ Cardinality({j \in J : d[j].total < v}) < k
        /\ k <= Cardinality({j \in J : d[j].total <= v})

\* the integer median of the totals of the rows J of d: the middle value, or
\* the mean of the two middle values without its fraction
IntegerMedian(d, J) ==
    LET n == Cardinality(J)
    IN  IF n % 2 = 1 THEN KthSmallest(d, J, (n + 1) \div 2)
        ELSE (KthSmallest(d, J, n \div 2) + KthSmallest(d, J, n \div 2 + 1)) \div 2

----------------------------------------------------------------------------
(* C1: the repair changes nothing but the total of rows whose total was 0  *)
(* before it: a row whose total was not 0 keeps it, every row keeps every  *)
(* other column, and no row is added or removed.                           *)
RepairChangesOnlyBrokenTotals ==
    /\ Len(daily) = Len(aggregated)
    /\ \A i \in DOMAIN daily :
         /\ [daily[i] EXCEPT !.total = aggregated[i].total] = aggregated[i]
         /\ aggregated[i].total # 0 => daily[i].total = aggregated[i].total
    /\ "daily_totals" \in attrs => daily_totals = daily

\* a finished repair that changed the total of a row with another count and
\* left a row alone
RepairChangedABrokenTotal ==
    /\ Spokane
    /\ "daily_totals" \in attrs
    /\ \E i, j \in DOMAIN aggregated :
         /\ aggregated[i].total = 0
         /\ daily_totals[i].total # 0
         /\ aggregated[i].other > 0
         /\ aggregated[j].total > 0

(* C2: a broken day all of whose prior years have a day of its weekday is  *)
(* given the integer median of its pool: per prior year, all the days of   *)
(* its weekday that are nearest to its day of the year, ties included.     *)
RepairWritesMedianOfPool ==
    Spokane =>
       \A i \in Written :
          (\A y \in PriorYears(daily, i) : SameWeekday(daily, i, y) # {})
             /\ PriorYears(daily, i) # {}
          => daily[i].total = IntegerMedian(daily, Pool(daily, i))

\* a repaired day whose pool has three rows, two of them tied in one year with
\* different totals
RepairedFromTiedPool ==
    /\ Spokane
    /\ pc = "done"
    /\ \E i \in Written :
         /\ Cardinality(Pool(daily, i)) = 3
         /\ \E j, k, l \in Pool(daily, i) :
              /\ daily[j].year = daily[k].year
              /\ daily[j].dayofyear # daily[k].dayofyear
              /\ daily[j].total # daily[k].total
              /\ daily[l].year # daily[j].year

(* C3: a broken day whose pool is empty keeps the total 0 as long as the   *)
(* run lasts, and the run ends in an error that leaves self without a      *)
(* daily table and without a rollup.                                       *)
EmptyPoolRaisesOrLeavesZero ==
    Spokane =>
       \A i \in BrokenPositions :
          Pool(aggregated, i) = {}
          => /\ daily[i].total = 0
             /\ pc \in {"fix", "error"}
             /\ pc = "error" => err # ""
             /\ attrs \subseteq {"hourly_totals"}
             /\ daily_totals = <<>>
             /\ grouped_by_weekday = <<>>
             /\ grouped_by_month = <<>>
             /\ rolling_yearly_sum = <<>>

\* the run failed at a broken day that has prior years, none with its weekday
RepairFailedWithoutWeekdayMatch ==
    /\ Spokane
    /\ pc = "error"
    /\ err = "ValueError: cannot convert float NaN to integer"
    /\ days_the_thief_struck # <<>>
    /\ \E i \in BrokenPositions :
         /\ Key(aggregated[i]) = Key(Head(days_the_thief_struck))
         /\ aggregated[i].weekday # NaN
         /\ PriorYears(aggregated, i) # {}
         /\ Pool(aggregated, i) = {}

(* C4: counts being non-negative, a repair that ran to its end leaves no   *)
(* row with total 0.                                                       *)
NoZeroTotalAfterRepair ==
    (Spokane /\ "daily_totals" \in attrs)
    => \A i \in DOMAIN daily_totals : daily_totals[i].total > 0

\* a finished repair of two broken days of different years
TwoYearsRepaired ==
    /\ Spokane
    /\ "daily_totals" \in attrs
    /\ \E i, j \in BrokenPositions : aggregated[i].year # aggregated[j].year

(* C5 as stated: at every location the rollups are computed after the      *)
(* daily table and from a daily table without a broken day.                *)
RollupsNeverSeeBrokenDays ==
    attrs \cap Rollups # {}
    => /\ {"hourly_totals", "daily_totals"} \subseteq attrs
       /\ \A i \in DOMAIN daily_totals : daily_totals[i].total # 0

(* C5 as amended: the rollups are computed after the daily table and from  *)
(* it; at the Spokane St bridge that table is the repaired one and has no  *)
(* broken day, at the other two locations it is the unrepaired one.        *)
RollupsFromRepairedTableAtSpokaneOnly ==
    /\ attrs \cap Rollups # {} => {"hourly_totals", "daily_totals"} \subseteq attrs
    /\ "grouped_by_month" \in attrs => "grouped_by_weekday" \in attrs
    /\ "rolling_yearly_sum" \in attrs => "grouped_by_month" \in attrs
    /\ "grouped_by_weekday" \in attrs
       => grouped_by_weekday = GroupByWeekdayFrame(daily_totals)
    /\ "grouped_by_month" \in attrs
       => grouped_by_month = GroupByMonthFrame(daily_totals)
    /\ "rolling_yearly_sum" \in attrs
       => rolling_yearly_sum = MakeRollingYearlyFrame(daily_totals, WINDOW)
    /\ "daily_totals" \in attrs
       => IF Spokane
          THEN /\ Written = BrokenPositions
               /\ \A i \in DOMAIN daily_totals : daily_totals[i].total # 0
          ELSE daily_totals = Aggregate(hourly_totals, total_cols)

\* the rollups of the Fremont bridge computed from a table with a broken day
FremontRollupsWithBrokenDay ==
    /\ location = "fremont_bridge"
    /\ pc = "done"
    /\ \E i \in DOMAIN daily_totals : daily_totals[i].total = 0

(* C6 as stated: the daily table has one row for each (year, dayofyear) of *)
(* the hourly table, none for another day, and no index twice.             *)
DailyOneRowPerDay ==
    pc \notin {"hourly_totals", "daily_totals"}
    => /\ {<<aggregated[i].year, aggregated[i].dayofyear>> : i \in DOMAIN aggregated}
          = {<<hourly_totals[i].year, hourly_totals[i].dayofyear>> :
                i \in DOMAIN hourly_totals}
       /\ \A i, j \in DOMAIN aggregated :
             Key(aggregated[i]) = Key(aggregated[j]) => i = j

(* C7 as stated: every daily row carries the calendar columns of one of    *)
(* the hourly rows of its day, whichever hours the day has.                *)
DailyRowsCarryMetadata ==
    \A i \in DOMAIN aggregated :
       \E h \in DOMAIN hourly_totals :
          /\ hourly_totals[h].year = aggregated[i].year
          /\ hourly_totals[h].dayofyear = aggregated[i].dayofyear
          /\ aggregated[i].weekday = hourly_totals[h].weekday
          /\ aggregated[i].day_name = hourly_totals[h].day_name
          /\ aggregated[i].day = hourly_totals[h].day
          /\ aggregated[i].month = hourly_totals[h].month
          /\ aggregated[i].date # NaT

(* C8 as stated: no two rows of the hourly table have the same (year,      *)
(* dayofyear, hour).                                                       *)
HourlyKeysUnique ==
    \A i, j \in DOMAIN hourly_totals :
       Key(hourly_totals[i]) = Key(hourly_totals[j]) => i = j

(* C9 as stated: the rolling table has one row per daily row, in ascending *)
(* order; row n has no total when n < 365 and otherwise the sum of the     *)
(* totals of the daily rows n-364 .. n.                                    *)
RollingYearlyOneRowPerDay ==
    "rolling_yearly_sum" \in attrs
    => /\ Len(rolling_yearly_sum) = Len(daily_totals)
       /\ \A n \in DOMAIN rolling_yearly_sum :
            /\ n > 1 => PairLeq(<<rolling_yearly_sum[n - 1].year,
                                  rolling_yearly_sum[n - 1].dayofyear>>,
                                <<rolling_yearly_sum[n].year,
                                  rolling_yearly_sum[n].dayofyear>>)
            /\ n <= Len(daily_totals)
               => /\ Key(rolling_yearly_sum[n]) = Key(daily_totals[n])
                  /\ rolling_yearly_sum[n].total =
                       IF n < 365 THEN NaN
                       ELSE SeqSum([k \in 1 .. 365 |-> daily_totals[n - 365 + k].total])

====
